---- MODULE Spec2Model ----
(***************************************************************************)
(* Model of the medical-bill amount extraction pipeline of src/app.py      *)
(* (class AmountDetectionService).                                          *)
(*                                                                          *)
(* A Python string is a sequence of characters; a character is a           *)
(* one-character TLA+ string, except the non-ASCII characters, which are   *)
(* named: "rupee" (U+20B9), "euro" (U+20AC), "yao" (U+836F).  The Python    *)
(* value None, where a string is expected, is the one-element sequence     *)
(* NoneText.  A Python number is a record [kind, m, e]: the int m          *)
(* (kind "int", e = 0) or the float m / 10^e (kind "float"), with m not a  *)
(* multiple of 10 when e > 0.                                               *)
(***************************************************************************)
EXTENDS Integers, Sequences, FiniteSets, TLC

VARIABLES
    pc,            \* position of the request in process_document / the stage function
    text,          \* process_document's parameter `text`
    image_data,    \* process_document's parameter `image_data`
    s1_text,       \* step1_ocr_extraction's local `text` (after the OCR call)
    raw_tokens,    \* step2_normalization's parameter
    cls_text,      \* the `text` argument of step3_classification / _fallback_classification
    cls_amounts,   \* the amounts argument of step3_classification / _fallback_classification
    step1_result,
    step2_result,
    step3_result,
    final_result,  \* what process_document returns
    outcome,       \* "running", "returned" or "raised"
    llm,           \* what the LLM collaborator did in this request
    ocr_calls,     \* calls of extract_text_from_image in this request
    llm_calls,     \* calls of gemini_model.generate_content in this request
    ocr_raised     \* whether an OCR call raised

vars == <<pc, text, image_data, s1_text, raw_tokens, cls_text, cls_amounts,
          step1_result, step2_result, step3_result, final_result, outcome,
          llm, ocr_calls, llm_calls, ocr_raised>>

-----------------------------------------------------------------------------
(* Characters and strings *)

NL == "\n"
Digit == {"0", "1", "2", "3", "4", "5", "6", "7", "8", "9"}
Whitespace == {" ", NL, "\t"}
NoneText == <<"None">>
NoResult == [none |-> TRUE]

UpperCase == <<"A","B","C","D","E","F","G","H","I","J","K","L","M",
               "N","O","P","Q","R","S","T","U","V","W","X","Y","Z">>
LowerCase == <<"a","b","c","d","e","f","g","h","i","j","k","l","m",
               "n","o","p","q","r","s","t","u","v","w","x","y","z">>

\* the lower-case letter of every upper-case letter
LowerOf == [c \in {UpperCase[i] : i \in 1..26} |->
               LowerCase[CHOOSE i \in 1..26 : UpperCase[i] = c]]

LowerChar(c) == IF c \in DOMAIN LowerOf THEN LowerOf[c] ELSE c

\* str.lower()
Lower(s) == [i \in 1..Len(s) |-> LowerChar(s[i])]

\* str.strip(): the span from the first to the last character that is not
\* white space
Strip(s) ==
    LET solid == {i \in 1..Len(s) : s[i] \notin Whitespace}
    IN  IF solid = {} THEN <<>>
        ELSE SubSeq(s, CHOOSE i \in solid : \A k \in solid : i <= k,
                       CHOOSE i \in solid : \A k \in solid : k <= i)

\* whether `sub` occurs in `s` at position i
OccursAt(sub, s, i) ==
    /\ i >= 1
    /\ i + Len(sub) - 1 <= Len(s)
    /\ \A k \in 1..Len(sub) : s[i + k - 1] = sub[k]

\* Python's `sub in s`
Contains(sub, s) == \E i \in 1..(Len(s) + 1) : OccursAt(sub, s, i)

\* str.replace(a, b) for single characters a, b
ReplaceChar(s, a, b) == [i \in 1..Len(s) |-> IF s[i] = a THEN b ELSE s[i]]

\* str.replace(a, '') for a single character a
RECURSIVE RemoveChar(_, _)
RemoveChar(s, a) ==
    IF s = <<>> THEN <<>>
    ELSE IF Head(s) = a THEN RemoveChar(Tail(s), a)
    ELSE <<Head(s)>> \o RemoveChar(Tail(s), a)

RECURSIVE Pow10(_)
Pow10(e) == IF e = 0 THEN 1 ELSE 10 * Pow10(e - 1)

DigitVal(c) == CHOOSE d \in 0..9 : <<"0","1","2","3","4","5","6","7","8","9">>[d + 1] = c

\* the number a string of digits denotes (0 for the empty string)
RECURSIVE DigitsToNat(_)
DigitsToNat(s) ==
    IF s = <<>> THEN 0
    ELSE 10 * DigitsToNat(SubSeq(s, 1, Len(s) - 1)) + DigitVal(s[Len(s)])

\* str(n) for an int n >= 0
RECURSIVE NatToStr(_)
NatToStr(n) ==
    IF n < 10 THEN << <<"0","1","2","3","4","5","6","7","8","9">>[n + 1] >>
    ELSE NatToStr(n \div 10) \o << <<"0","1","2","3","4","5","6","7","8","9">>[(n % 10) + 1] >>

-----------------------------------------------------------------------------
(* Numbers *)

RECURSIVE NormDec(_, _)
NormDec(m, e) ==
    IF e > 0 /\ m % 10 = 0 THEN NormDec(m \div 10, e - 1) ELSE [m |-> m, e |-> e]

\* the Python float m / 10^e
PyFloat(m, e) == [kind |-> "float", m |-> NormDec(m, e).m, e |-> NormDec(m, e).e]
\* the Python int n
PyInt(n) == [kind |-> "int", m |-> n, e |-> 0]

IsNumber(v) == v.kind \in {"int", "float"}
\* float.is_integer()
is_integer(v) == v.e = 0
\* int(v) of a number v >= 0
int(v) == v.m \div Pow10(v.e)
\* a <= b for numbers
NumLeq(a, b) == a.m * Pow10(b.e) <= b.m * Pow10(a.e)

-----------------------------------------------------------------------------
(* Step 1: token extraction (step1_ocr_extraction, after the OCR call) *)

\* the index after the digit run of s that starts at i (i itself when there is none)
RECURSIVE DigitsEnd(_, _)
DigitsEnd(s, i) == IF i <= Len(s) /\ s[i] \in Digit THEN DigitsEnd(s, i + 1) ELSE i

\* patterns[p] matched at position i of s: the index after the match, 0 when
\* the pattern does not match there
\*   1: \d+(?:\.\d+)?%?    2: [lI]\d+    3: \d+[lI]    4: [Oo]\d+
MatchEnd(p, s, i) ==
    CASE p = 1 ->
           IF s[i] \notin Digit THEN 0
           ELSE LET j == DigitsEnd(s, i)
                    k == IF j + 1 <= Len(s) /\ s[j] = "." /\ s[j + 1] \in Digit
                         THEN DigitsEnd(s, j + 1)
                         ELSE j
                IN  IF k <= Len(s) /\ s[k] = "%" THEN k + 1 ELSE k
      [] p = 2 ->
           IF s[i] \in {"l", "I"} /\ i + 1 <= Len(s) /\ s[i + 1] \in Digit
           THEN DigitsEnd(s, i + 1)
           ELSE 0
      [] p = 3 ->
           IF s[i] \notin Digit THEN 0
           ELSE LET j == DigitsEnd(s, i)
                IN  IF j <= Len(s) /\ s[j] \in {"l", "I"} THEN j + 1 ELSE 0
      [] p = 4 ->
           IF s[i] \in {"O", "o"} /\ i + 1 <= Len(s) /\ s[i + 1] \in Digit
           THEN DigitsEnd(s, i + 1)
           ELSE 0

\* the first position from i on where patterns[p] matches, 0 when there is none
NextMatch(p, s, i) ==
    LET starts == {k \in i..Len(s) : MatchEnd(p, s, k) # 0}
    IN  IF starts = {} THEN 0 ELSE CHOOSE k \in starts : \A n \in starts : k <= n

\* re.findall(patterns[p], s), scanning from position i: the leftmost match,
\* then the matches after its end
RECURSIVE FindAllFrom(_, _, _)
FindAllFrom(p, s, i) ==
    LET k == NextMatch(p, s, i)
    IN  IF k = 0 THEN <<>>
        ELSE <<SubSeq(s, k, MatchEnd(p, s, k) - 1)>> \o FindAllFrom(p, s, MatchEnd(p, s, k))

NumPatterns == 4

\* for pattern in patterns: raw_tokens.extend(re.findall(pattern, text))
RECURSIVE ExtendAll(_, _)
ExtendAll(s, p) ==
    IF p > NumPatterns THEN <<>> ELSE FindAllFrom(p, s, 1) \o ExtendAll(s, p + 1)

\* [x for x in raw_tokens if not (x in seen or seen.add(x))]
RECURSIVE Dedup(_, _)
Dedup(toks, seen) ==
    IF toks = <<>> THEN <<>>
    ELSE IF Head(toks) \in seen THEN Dedup(Tail(toks), seen)
    ELSE <<Head(toks)>> \o Dedup(Tail(toks), seen \cup {Head(toks)})

\* self.currency_patterns, in the dict's order; each pattern as the set of the
\* lower-cased strings whose occurrence makes re.search(..., re.IGNORECASE)
\* succeed (Rs\.? matches wherever Rs does)
currency_patterns ==
    << [curr |-> "INR", alts |-> { <<"i","n","r">>, <<"r","s">>, <<"rupee">> }],
       [curr |-> "USD", alts |-> { <<"u","s","d">>, <<"$">> }],
       [curr |-> "EUR", alts |-> { <<"e","u","r">>, <<"euro">> }] >>

\* re.search(pattern, s, re.IGNORECASE) for a currency pattern
SearchCurrency(pat, s) == \E a \in pat.alts : Contains(a, Lower(s))

\* currency_hint = "INR"; for curr, pattern in ...: if re.search: hint = curr; break
RECURSIVE DetectFrom(_, _, _)
DetectFrom(pats, s, i) ==
    IF i > Len(pats) THEN "INR"
    ELSE IF SearchCurrency(pats[i], s) THEN pats[i].curr
    ELSE DetectFrom(pats, s, i + 1)

\* DetectCurrency with USD tested before INR
DetectCurrencyUsdFirst(s) ==
    DetectFrom(<<currency_patterns[2], currency_patterns[1], currency_patterns[3]>>, s, 1)

DetectCurrency(s) == DetectFrom(currency_patterns, s, 1)

MinTextLen == 5

\* TooNoisy with the length taken of the text as given, not of the stripped text
TooNoisyNoStrip(t) == t = NoneText \/ t = <<>> \/ Len(t) < MinTextLen

\* TooNoisy with the comparison off by one (<= for <)
TooNoisyInclusive(t) == t = NoneText \/ t = <<>> \/ Len(Strip(t)) <= MinTextLen

\* `not text or len(text.strip()) < 5`
TooNoisy(t) == t = NoneText \/ t = <<>> \/ Len(Strip(t)) < MinTextLen

\* round(ocr_confidence, 2) of extract_text_from_image's
\* max(0.5, min(0.95, len(text.strip()) / 100))
OcrConfidence(t) ==
    LET n == Len(Strip(t))
        c == IF n > 95 THEN 95 ELSE n
    IN  PyFloat(IF c < 50 THEN 50 ELSE c, 2)

\* step1_ocr_extraction from its first test on: t is the text it works on,
\* conf the OCR confidence (0.95 when no image was given)
step1_ocr_extraction(t, conf) ==
    IF TooNoisy(t)
    THEN [status |-> "no_amounts_found", reason |-> "document too noisy"]
    ELSE LET toks == Dedup(ExtendAll(t, 1), {})
         IN  IF toks = <<>>
             THEN [status |-> "no_amounts_found", reason |-> "no numeric values detected"]
             ELSE [raw_tokens |-> toks,
                   currency_hint |-> DetectCurrency(t),
                   confidence |-> conf]

\* step1_result.get('status') == 'no_amounts_found'
IsTerminal(r) == "status" \in DOMAIN r /\ r.status = "no_amounts_found"

-----------------------------------------------------------------------------
(* Step 2: normalization (step2_normalization) *)

ValueError == [kind |-> "ValueError", m |-> 0, e |-> 0]

\* float(s) for a string of digits, '.', white space and characters that make
\* float() fail: white space is stripped, then digits with at most one '.'
\* and at least one digit parse; anything else raises ValueError
ParseFloat(s) ==
    LET t == Strip(s)
        dots == {i \in 1..Len(t) : t[i] = "."}
    IN  IF \/ \E i \in 1..Len(t) : t[i] \notin Digit \cup {"."}
           \/ Cardinality(dots) > 1
           \/ ~ \E i \in 1..Len(t) : t[i] \in Digit
        THEN ValueError
        ELSE IF dots = {} THEN PyFloat(DigitsToNat(t), 0)
        ELSE LET d == CHOOSE i \in dots : TRUE
             IN  PyFloat(DigitsToNat(SubSeq(t, 1, d - 1) \o SubSeq(t, d + 1, Len(t))),
                         Len(t) - d)

\* the replace() chain of lines 114-116
Clean(token) ==
    RemoveChar(
      ReplaceChar(ReplaceChar(ReplaceChar(ReplaceChar(token, "l", "1"), "I", "1"),
                              "O", "0"), "o", "0"),
      ",")

\* Positive with >= for >
PositiveOrZero(amount) == amount.m >= 0

\* `amount > 0`
Positive(amount) == amount.m > 0

\* one iteration of the loop over raw_tokens: the values the token appends
NormalizeToken(token) ==
    IF Contains(<<"%">>, token) THEN <<>>
    ELSE LET amount == ParseFloat(Clean(token))
         IN  IF amount = ValueError THEN <<>>
             ELSE IF Positive(amount)
             THEN << IF is_integer(amount) THEN PyInt(int(amount)) ELSE amount >>
             ELSE <<>>

RECURSIVE NormalizeAll(_)
NormalizeAll(toks) ==
    IF toks = <<>> THEN <<>>
    ELSE NormalizeToken(Head(toks)) \o NormalizeAll(Tail(toks))

step2_normalization(toks) ==
    LET normalized_amounts == NormalizeAll(toks)
    IN  [normalized_amounts |-> normalized_amounts,
         normalization_confidence |->
             IF normalized_amounts # <<>> THEN PyFloat(82, 2) ELSE PyFloat(0, 0)]

-----------------------------------------------------------------------------
(* Step 3: classification (step3_classification, _fallback_classification) *)

\* the keywords dict of _fallback_classification, in the dict's order
keywords ==
    << [category |-> "total_bill",
        terms |-> << <<"t","o","t","a","l">>,
                   <<"g","r","a","n","d"," ","t","o","t","a","l">>,
                   <<"a","m","o","u","n","t">>,
                   <<"b","i","l","l">> >>],
       [category |-> "paid",
        terms |-> << <<"p","a","i","d">>,
                   <<"p","a","y","m","e","n","t">>,
                   <<"r","e","c","e","i","v","e","d">> >>],
       [category |-> "due",
        terms |-> << <<"d","u","e">>,
                   <<"b","a","l","a","n","c","e">>,
                   <<"o","u","t","s","t","a","n","d","i","n","g">>,
                   <<"p","e","n","d","i","n","g">> >>],
       [category |-> "discount",
        terms |-> << <<"d","i","s","c","o","u","n","t">>,
                   <<"o","f","f">> >>],
       [category |-> "consultation_fee",
        terms |-> << <<"c","o","n","s","u","l","t","a","t","i","o","n">>,
                   <<"d","o","c","t","o","r">>,
                   <<"v","i","s","i","t">> >>],
       [category |-> "medicine_cost",
        terms |-> << <<"m","e","d","i","c","i","n","e">>,
                   <<"yao">>,
                   <<"d","r","u","g","s">>,
                   <<"p","h","a","r","m","a","c","y">> >>],
       [category |-> "test_cost",
        terms |-> << <<"t","e","s","t">>,
                   <<"l","a","b">>,
                   <<"x","-","r","a","y">>,
                   <<"s","c","a","n">> >>] >>

\* `.*?b` matched from position q of s: b occurs at some place from q on, and
\* `.`, which matches every character but the newline, matches all before it
LazyThen(b, s, q) ==
    \E j \in q..(Len(s) + 1) :
        /\ OccursAt(b, s, j)
        /\ \A k \in q..(j - 1) : s[k] # NL

\* SearchNear without the second alternative of the pattern
SearchNearForwardOnly(a, b, s) ==
    \E i \in 1..Len(s) : OccursAt(a, s, i) /\ LazyThen(b, s, i + Len(a))

\* re.search(f"{a}.*?{b}|{b}.*?{a}", s) for literal strings a and b
SearchNear(a, b, s) ==
    \E i \in 1..Len(s) :
        \/ OccursAt(a, s, i) /\ LazyThen(b, s, i + Len(a))
        \/ OccursAt(b, s, i) /\ LazyThen(a, s, i + Len(b))

\* str(int(amount))
amount_str(amount) == NatToStr(int(amount))

\* the two inner loops of _fallback_classification for one amount: the index
\* of the first category with a matching term, 0 when none matches
RECURSIVE FirstCategory(_, _, _)
FirstCategory(text_lower, astr, c) ==
    IF c > Len(keywords) THEN 0
    ELSE IF \E k \in 1..Len(keywords[c].terms) :
                SearchNear(keywords[c].terms[k], astr, text_lower)
    THEN c
    ELSE FirstCategory(text_lower, astr, c + 1)

ClassifyOne(text_lower, amount) ==
    LET c == FirstCategory(text_lower, amount_str(amount), 1)
    IN  [type |-> IF c = 0 THEN "other" ELSE keywords[c].category, value |-> amount]

RECURSIVE ClassifyAll(_, _)
ClassifyAll(text_lower, amounts) ==
    IF amounts = <<>> THEN <<>>
    ELSE <<ClassifyOne(text_lower, Head(amounts))>> \o ClassifyAll(text_lower, Tail(amounts))

fallback_classification(t, amounts) ==
    [amounts |-> ClassifyAll(Lower(t), amounts), confidence |-> PyFloat(70, 2)]

\* What the call of the LLM collaborator and the parse of its response come
\* to (lines 169-184): the name gemini_model is unbound (no API key), the call
\* raises, the response holds no {...} span, json.loads raises on the span, or
\* json.loads returns the object obj
LLMFails(b) == b.kind \in {"unconfigured", "raises", "bad_json"}

\* step3_classification, given what the LLM collaborator does
step3_classification(t, normalized_amounts, b) ==
    IF normalized_amounts = <<>>
    THEN [amounts |-> <<>>, confidence |-> PyFloat(0, 0)]
    ELSE IF LLMFails(b) THEN fallback_classification(t, normalized_amounts)
    ELSE IF b.kind = "no_json" THEN fallback_classification(t, normalized_amounts)
    ELSE b.obj

-----------------------------------------------------------------------------
(* Step 4: result assembly (step4_final_output) *)

\* text.split('\n')
RECURSIVE Split(_)
Split(s) ==
    IF \A i \in 1..Len(s) : s[i] # NL THEN <<s>>
    ELSE LET n == CHOOSE i \in 1..Len(s) : s[i] = NL /\ \A k \in 1..(i - 1) : s[k] # NL
         IN  <<SubSeq(s, 1, n - 1)>> \o Split(SubSeq(s, n + 1, Len(s)))

MaxSourceLen == 50
Unknown == <<"u","n","k","n","o","w","n">>

\* f"text: '{line.strip()[:50]}'"
Quote(line) ==
    LET t == Strip(line)
    IN  <<"t","e","x","t",":"," ","'">>
        \o SubSeq(t, 1, IF Len(t) < MaxSourceLen THEN Len(t) ELSE MaxSourceLen)
        \o <<"'">>

\* the loop over the lines, from line i on
RECURSIVE SourceFrom(_, _, _)
SourceFrom(lines, astr, i) ==
    IF i > Len(lines) THEN Unknown
    ELSE IF Contains(astr, lines[i]) THEN Quote(lines[i])
    ELSE SourceFrom(lines, astr, i + 1)

\* the exception one item of classified_amounts raises, "" when it raises none:
\* item['value'], int(amount_value), item['type'] in the order of evaluation
ItemError(item) ==
    IF "value" \notin DOMAIN item THEN "KeyError"
    ELSE IF item.value.kind = "str" THEN "ValueError"
    ELSE IF ~IsNumber(item.value) THEN "TypeError"
    ELSE IF "type" \notin DOMAIN item THEN "KeyError"
    ELSE ""

FinalAmount(t, item) ==
    [type |-> item.type, value |-> item.value,
     source |-> SourceFrom(Split(t), amount_str(item.value), 1)]

\* step4_final_output: the report, or [error |-> e] when it raises e
step4_final_output(t, currency, classified_amounts) ==
    IF \E i \in 1..Len(classified_amounts) : ItemError(classified_amounts[i]) # ""
    THEN [error |-> ItemError(classified_amounts[
                        CHOOSE i \in 1..Len(classified_amounts) :
                            /\ ItemError(classified_amounts[i]) # ""
                            /\ \A k \in 1..(i - 1) : ItemError(classified_amounts[k]) = ""])]
    ELSE [currency |-> currency,
          amounts |-> [i \in 1..Len(classified_amounts) |->
                          FinalAmount(t, classified_amounts[i])],
          status |-> "ok"]

\* lines 270-282 of process_document: step3_result['amounts'], step 4 and
\* step3_result.get('confidence', 0.75)
Assemble(t, currency, s3) ==
    IF "amounts" \notin DOMAIN s3 THEN [error |-> "KeyError"]
    ELSE LET final == step4_final_output(t, currency, s3.amounts)
         IN  IF "error" \in DOMAIN final THEN final
             ELSE [currency |-> final.currency,
                   amounts |-> final.amounts,
                   status |-> final.status,
                   confidence_score |->
                       IF "confidence" \in DOMAIN s3 THEN s3.confidence
                       ELSE PyFloat(75, 2)]

-----------------------------------------------------------------------------
(* The requests of the complete pipeline *)

\* the text of the end-to-end scenario
ScenarioText ==
    <<"D","o","c","t","o","r"," ","C","o","n","s","u","l","t","a","t","i",
      "o","n"," ","F","e","e",":"," ","R","s"," ","5","0","0","\n","T","o",
      "t","a","l"," ","A","m","o","u","n","t",":"," ","R","s"," ","2","9",
      "4","0","\n","A","m","o","u","n","t"," ","P","a","i","d",":"," ","R",
      "s"," ","2","0","0","0","\n","B","a","l","a","n","c","e"," ","D","u",
      "e",":"," ","R","s"," ","9","4","0">>
LineFee ==
    <<"D","o","c","t","o","r"," ","C","o","n","s","u","l","t","a","t","i",
      "o","n"," ","F","e","e",":"," ","R","s"," ","5","0","0">>
LineTotal ==
    <<"T","o","t","a","l"," ","A","m","o","u","n","t",":"," ","R","s"," ",
      "2","9","4","0">>
LinePaid ==
    <<"A","m","o","u","n","t"," ","P","a","i","d",":"," ","R","s"," ","2",
      "0","0","0">>
LineDue ==
    <<"B","a","l","a","n","c","e"," ","D","u","e",":"," ","R","s"," ","9",
      "4","0">>
TotalText ==
    <<"T","o","t","a","l"," ","A","m","o","u","n","t"," ","R","s"," ","2",
      "9","4","0">>
PaidText ==
    <<"P","a","i","d"," ","7","0","0"," ","U","S","D">>
TaxText ==
    <<"T","a","x"," ","5","%"," ","o","n","l","y">>
WordsText ==
    <<"n","o"," ","d","i","g","i","t","s">>

NoImage == "None"
Image == "bytes"

MaxShortLen == 5
ShortAlphabet == {" ", "5", "a", NL}

\* every string over the alphabet of length at most n
StringsUpTo(alphabet, n) == UNION {[1..k -> alphabet] : k \in 0..n}

BillTexts == {ScenarioText, TotalText, PaidText, TaxText, WordsText}

\* what the OCR collaborator may read from an image
OcrTexts == {TotalText, PaidText, <<"a","b">>}

\* process_document(text, image_data): text alone, image alone (text absent
\* or empty), or both
Requests ==
    {[text |-> t, image |-> NoImage] :
        t \in StringsUpTo(ShortAlphabet, MaxShortLen) \cup BillTexts \cup {NoneText}}
    \cup {[text |-> t, image |-> Image] : t \in {NoneText, <<>>, TotalText, WordsText}}

Item(type, value) == [type |-> type, value |-> value]
NotANumber == [kind |-> "str", m |-> 0, e |-> 0]
Null == [kind |-> "null", m |-> 0, e |-> 0]

\* the JSON objects the LLM response may hold
LLMObjects ==
    { [amounts |-> <<Item("total_bill", PyInt(2940))>>, confidence |-> PyFloat(9, 1)],
      [amounts |-> <<Item("paid", PyInt(5)), Item("other", PyFloat(25, 1))>>,
       confidence |-> PyInt(1)],
      [amounts |-> <<>>, confidence |-> PyFloat(5, 1)],
      [amounts |-> <<Item("paid", PyInt(700))>>],
      [amounts |-> <<Item("paid", PyInt(700))>>, confidence |-> PyFloat(15, 1)],
      [amounts |-> <<Item("paid", PyInt(700))>>, confidence |-> NotANumber],
      [amounts |-> <<Item("paid", PyInt(700))>>, confidence |-> Null],
      [confidence |-> PyFloat(9, 1)],
      [amounts |-> <<[value |-> PyInt(700)]>>, confidence |-> PyFloat(9, 1)],
      [amounts |-> <<[type |-> "paid"]>>, confidence |-> PyFloat(9, 1)],
      [amounts |-> <<Item("paid", NotANumber)>>, confidence |-> PyFloat(9, 1)],
      [amounts |-> <<Item("paid", Null)>>, confidence |-> PyFloat(9, 1)] }

LLMBehaviours ==
    {[kind |-> k, obj |-> NoResult] : k \in {"unconfigured", "raises", "no_json", "bad_json"}}
    \cup {[kind |-> "object", obj |-> o] : o \in LLMObjects}

NoLLM == [kind |-> "not called", obj |-> NoResult]

-----------------------------------------------------------------------------
(* process_document *)

InitRequest(t, img) ==
    /\ pc = "start"
    /\ text = t
    /\ image_data = img
    /\ s1_text = NoneText
    /\ raw_tokens = <<>>
    /\ cls_text = NoneText
    /\ cls_amounts = <<>>
    /\ step1_result = NoResult
    /\ step2_result = NoResult
    /\ step3_result = NoResult
    /\ final_result = NoResult
    /\ outcome = "running"
    /\ llm = NoLLM
    /\ ocr_calls = 0
    /\ llm_calls = 0
    /\ ocr_raised = FALSE

Init == \E r \in Requests : InitRequest(r.text, r.image)

Return(r) == final_result' = r /\ outcome' = "returned" /\ pc' = "done"
Raise(e) == final_result' = [error |-> e] /\ outcome' = "raised" /\ pc' = "done"

\* lines 258-260 with step1_ocr_extraction's else branch (no image)
Step1Text ==
    /\ pc = "start"
    /\ image_data = NoImage
    /\ s1_text' = text
    /\ step1_result' = step1_ocr_extraction(text, PyFloat(95, 2))
    /\ IF IsTerminal(step1_result')
       THEN Return(step1_result')
       ELSE pc' = "step2" /\ UNCHANGED <<final_result, outcome>>
    /\ UNCHANGED <<text, image_data, raw_tokens, cls_text, cls_amounts, step2_result,
                   step3_result, llm, ocr_calls, llm_calls, ocr_raised>>

\* lines 258-260 with step1_ocr_extraction's call of extract_text_from_image,
\* which replaces step 1's text by what the OCR collaborator reads
Step1Image ==
    /\ pc = "start"
    /\ image_data # NoImage
    /\ ocr_calls' = ocr_calls + 1
    /\ \/ /\ ocr_raised' = TRUE
          /\ Raise("OCR failed")
          /\ UNCHANGED <<s1_text, step1_result>>
       \/ \E t \in OcrTexts :
             /\ s1_text' = t
             /\ step1_result' = step1_ocr_extraction(t, OcrConfidence(t))
             /\ IF IsTerminal(step1_result')
                THEN Return(step1_result')
                ELSE pc' = "step2" /\ UNCHANGED <<final_result, outcome>>
             /\ UNCHANGED ocr_raised
    /\ UNCHANGED <<text, image_data, raw_tokens, cls_text, cls_amounts, step2_result,
                   step3_result, llm, llm_calls>>

\* line 263
Step2 ==
    /\ pc = "step2"
    /\ raw_tokens' = step1_result.raw_tokens
    /\ step2_result' = step2_normalization(raw_tokens')
    /\ pc' = "text"
    /\ UNCHANGED <<text, image_data, s1_text, cls_text, cls_amounts, step1_result,
                   step3_result, final_result, outcome, llm, ocr_calls, llm_calls,
                   ocr_raised>>

\* `image_data and not text`
NeedsText == image_data # NoImage /\ (text = NoneText \/ text = <<>>)

\* lines 266-267, no second OCR call
KeepText ==
    /\ pc = "text"
    /\ ~NeedsText
    /\ pc' = "step3"
    /\ UNCHANGED <<text, image_data, s1_text, raw_tokens, cls_text, cls_amounts,
                   step1_result, step2_result, step3_result, final_result, outcome,
                   llm, ocr_calls, llm_calls, ocr_raised>>

\* lines 266-267: process_document calls extract_text_from_image itself
ReadTextAgain ==
    /\ pc = "text"
    /\ NeedsText
    /\ ocr_calls' = ocr_calls + 1
    /\ \/ /\ ocr_raised' = TRUE
          /\ Raise("OCR failed")
          /\ UNCHANGED text
       \/ \E t \in OcrTexts :
             /\ text' = t
             /\ pc' = "step3"
             /\ UNCHANGED <<final_result, outcome, ocr_raised>>
    /\ UNCHANGED <<image_data, s1_text, raw_tokens, cls_text, cls_amounts,
                   step1_result, step2_result, step3_result, llm, llm_calls>>

\* line 270 when the amount list is empty: the LLM collaborator is not called
Step3Empty ==
    /\ pc = "step3"
    /\ step2_result.normalized_amounts = <<>>
    /\ cls_text' = text
    /\ cls_amounts' = step2_result.normalized_amounts
    /\ step3_result' = step3_classification(cls_text', cls_amounts', NoLLM)
    /\ pc' = "step4"
    /\ UNCHANGED <<text, image_data, s1_text, raw_tokens, step1_result, step2_result,
                   final_result, outcome, llm, ocr_calls, llm_calls, ocr_raised>>

\* line 270 otherwise: one use of gemini_model, which is a call of the LLM
\* collaborator unless the name is unbound
Step3LLM ==
    /\ pc = "step3"
    /\ step2_result.normalized_amounts # <<>>
    /\ cls_text' = text
    /\ cls_amounts' = step2_result.normalized_amounts
    /\ \E b \in LLMBehaviours :
          /\ llm' = b
          /\ llm_calls' = IF b.kind = "unconfigured" THEN llm_calls ELSE llm_calls + 1
          /\ step3_result' = step3_classification(cls_text', cls_amounts', b)
    /\ pc' = "step4"
    /\ UNCHANGED <<text, image_data, s1_text, raw_tokens, step1_result, step2_result,
                   final_result, outcome, ocr_calls, ocr_raised>>

\* lines 273-282
Step4 ==
    /\ pc = "step4"
    /\ LET r == Assemble(text, step1_result.currency_hint, step3_result)
       IN  IF "error" \in DOMAIN r THEN Raise(r.error) ELSE Return(r)
    /\ UNCHANGED <<text, image_data, s1_text, raw_tokens, cls_text, cls_amounts,
                   step1_result, step2_result, step3_result, llm, ocr_calls,
                   llm_calls, ocr_raised>>

Next == Step1Text \/ Step1Image \/ Step2 \/ KeepText \/ ReadTextAgain
        \/ Step3Empty \/ Step3LLM \/ Step4

Spec == Init /\ [][Next]_vars

-----------------------------------------------------------------------------
(* Claims about process_document (specification Spec) *)

Range(f) == {f[i] : i \in DOMAIN f}

\* the number of characters from the first to the last character of t that is
\* not white space
TrimmedLen(t) ==
    LET solid == {i \in 1..Len(t) : t[i] \notin Whitespace}
    IN  IF solid = {} THEN 0
        ELSE Cardinality({i \in 1..Len(t) :
                             /\ \E a \in solid : a <= i
                             /\ \E b \in solid : i <= b})

\* the request reached classification
Classified == step3_result # NoResult

\* final_result is an ExtractionReport
IsReport == outcome = "returned" /\ "confidence_score" \in DOMAIN final_result

ReportHas(type, n, line) ==
    \E i \in DOMAIN final_result.amounts :
        /\ final_result.amounts[i].type = type
        /\ final_result.amounts[i].value = PyInt(n)
        /\ final_result.amounts[i].source # Unknown
        /\ final_result.amounts[i].source = Quote(line)

\* C1: process called with the four-line scenario text alone, the LLM
\* collaborator unavailable, returns a report with status ok, currency INR,
\* confidence 0.70 and the amounts consultation_fee 500, total_bill 2940,
\* paid 2000 and due 940, each with a provenance that quotes its own line.
C1_EndToEndScenario ==
    (/\ pc = "done"
     /\ image_data = NoImage
     /\ text = ScenarioText
     /\ llm.kind \in {"unconfigured", "raises"})
    => /\ IsReport
       /\ final_result.status = "ok"
       /\ final_result.currency = "INR"
       /\ final_result.confidence_score = PyFloat(70, 2)
       /\ ReportHas("consultation_fee", 500, LineFee)
       /\ ReportHas("total_bill", 2940, LineTotal)
       /\ ReportHas("paid", 2000, LinePaid)
       /\ ReportHas("due", 940, LineDue)

\* C2: when token extraction succeeded (and no OCR call failed), process
\* raises no error and returns a report with status ok, whatever the LLM
\* collaborator did.
C2_NeverFailsOnLLM ==
    (pc = "done" /\ "raw_tokens" \in DOMAIN step1_result /\ ~ocr_raised)
    => (outcome = "returned" /\ final_result.status = "ok")

\* C3: in one process invocation the OCR collaborator is invoked at most once
\* and the LLM collaborator at most once.
C3_SingleAttempt == ocr_calls <= 1 /\ llm_calls <= 1

\* C5: a text-only request whose text is absent, empty or of trimmed length
\* below 5 returns exactly {status: no_amounts_found, reason: document too
\* noisy}, and no later stage runs.
C5_ShortTextTooNoisy ==
    (image_data = NoImage /\ (text = NoneText \/ TrimmedLen(text) < 5))
    => /\ pc \in {"start", "done"}
       /\ step2_result = NoResult /\ step3_result = NoResult
       /\ ocr_calls = 0 /\ llm_calls = 0
       /\ pc = "done" =>
             /\ outcome = "returned"
             /\ final_result = [status |-> "no_amounts_found",
                                reason |-> "document too noisy"]

\* a text longer than 4 characters whose trimmed length is below 5 was answered
C5_Witness ==
    /\ pc = "done"
    /\ image_data = NoImage
    /\ text # NoneText /\ Len(text) >= 5 /\ TrimmedLen(text) \in 1..4
    /\ outcome = "returned"
    /\ "reason" \in DOMAIN final_result
    /\ final_result.reason = "document too noisy"

\* C8: the confidence_score of every report process returns is a number in
\* [0,1].
C8_ConfidenceInRange ==
    IsReport =>
        /\ IsNumber(final_result.confidence_score)
        /\ NumLeq(PyInt(0), final_result.confidence_score)
        /\ NumLeq(final_result.confidence_score, PyInt(1))

\* C10: once a request reached classification, the text handed to
\* classification and to result assembly is the text step 1 extracted the
\* tokens and the currency hint from.
C10_SameText == Classified => (cls_text = s1_text /\ text = s1_text)

-----------------------------------------------------------------------------
(* Token extraction and normalization on every short text over an alphabet
   of digits, OCR-confusable glyphs, '.', '%' and the space: steps 1 and 2 of
   process_document on a text-only request *)

MaxTextLen == 5
TokenAlphabet == {"5", "0", ".", "%", "l", "O", " "}

InitTokens == \E t \in StringsUpTo(TokenAlphabet, MaxTextLen) : InitRequest(t, NoImage)
NextTokens == Step1Text \/ Step2
SpecTokens == InitTokens /\ [][NextTokens]_vars

HasDigit(t) == \E i \in 1..Len(t) : t[i] \in Digit

\* the maximal runs of digits of t, as pairs of first and last position
DigitRuns(t) ==
    {r \in (1..Len(t)) \X (1..Len(t)) :
        /\ r[1] <= r[2]
        /\ \A k \in r[1]..r[2] : t[k] \in Digit
        /\ r[1] = 1 \/ t[r[1] - 1] \notin Digit
        /\ r[2] = Len(t) \/ t[r[2] + 1] \notin Digit}

RunValue(t, r) == DigitsToNat(SubSeq(t, r[1], r[2]))

\* the run is the fraction or the integer part of a decimal number, or a
\* percentage
InDecimalOrPercent(t, r) ==
    \/ r[1] > 2 /\ t[r[1] - 1] = "." /\ t[r[1] - 2] \in Digit
    \/ r[2] + 2 <= Len(t) /\ t[r[2] + 1] = "." /\ t[r[2] + 2] \in Digit
    \/ r[2] + 1 <= Len(t) /\ t[r[2] + 1] = "%"

Normalized == Range(step2_result.normalized_amounts)

\* C4 as stated: every text with a digit run gets a non-empty raw_tokens list
\* from step 1, and step 2 returns a value equal to a digit run of the text.
C4_DigitRunExtracted ==
    (pc # "start" /\ HasDigit(text))
    => /\ "raw_tokens" \in DOMAIN step1_result
       /\ pc = "text" => \E r \in DigitRuns(text) : PyInt(RunValue(text, r)) \in Normalized

\* C4 as amended: every text of trimmed length at least 5 with a digit run
\* gets a non-empty raw_tokens list from step 1, and step 2 returns the value
\* of every digit run that is greater than 0 and neither part of a decimal
\* number nor followed by '%'.
C4_DigitRunExtractedWhenLongEnough ==
    /\ (pc # "start" /\ HasDigit(text) /\ TrimmedLen(text) >= 5)
       => /\ "raw_tokens" \in DOMAIN step1_result
          /\ step1_result.raw_tokens # <<>>
    /\ pc = "text"
       => \A r \in DigitRuns(text) :
             (RunValue(text, r) > 0 /\ ~InDecimalOrPercent(text, r))
             => PyInt(RunValue(text, r)) \in Normalized

\* steps 1 and 2 ran on a text with a plain digit run, a zero, a decimal
\* number or a percentage
C4_Witness ==
    /\ pc = "text"
    /\ \E r \in DigitRuns(text) : RunValue(text, r) > 0 /\ ~InDecimalOrPercent(text, r)
    /\ \E r \in DigitRuns(text) : RunValue(text, r) = 0 \/ InDecimalOrPercent(text, r)
    /\ step2_result.normalized_amounts # <<>>

-----------------------------------------------------------------------------
(* The currency hint of step 1 on texts put together from currency symbols,
   letters of the currency codes and an amount *)

MaxPieces == 4
CurrencyPieces ==
    { <<"5", " ">>, <<"$">>, <<"rupee">>, <<"euro">>, <<"R">>, <<"s">>,
      <<"i","n","r">>, <<"U","S","D">>, <<"e","u">> }

RECURSIVE Flatten(_)
Flatten(ps) == IF ps = <<>> THEN <<>> ELSE Head(ps) \o Flatten(Tail(ps))

InitCurrency ==
    \E ps \in StringsUpTo(CurrencyPieces, MaxPieces) : InitRequest(Flatten(ps), NoImage)
NextCurrency == Step1Text
SpecCurrency == InitCurrency /\ [][NextCurrency]_vars

\* the code (a sequence of sets of characters, one per position) occurs in t
OccursAnyCase(code, t) ==
    \E i \in 1..Len(t) :
        /\ i + Len(code) - 1 <= Len(t)
        /\ \A k \in 1..Len(code) : t[i + k - 1] \in code[k]

HasINR(t) ==
    \/ OccursAnyCase(<<{"i","I"}, {"n","N"}, {"r","R"}>>, t)
    \/ OccursAnyCase(<<{"r","R"}, {"s","S"}>>, t)
    \/ OccursAnyCase(<<{"rupee"}>>, t)
HasUSD(t) ==
    \/ OccursAnyCase(<<{"u","U"}, {"s","S"}, {"d","D"}>>, t)
    \/ OccursAnyCase(<<{"$"}>>, t)
HasEUR(t) ==
    \/ OccursAnyCase(<<{"e","E"}, {"u","U"}, {"r","R"}>>, t)
    \/ OccursAnyCase(<<{"euro"}>>, t)

\* C7: the currency hint is the first of INR, USD, EUR whose pattern occurs
\* in the text in any letter case, INR when none occurs; a text with '$' and
\* the rupee sign yields INR, and USD is returned only without an INR pattern.
C7_CurrencyPriority ==
    "currency_hint" \in DOMAIN step1_result
    => /\ step1_result.currency_hint =
            IF HasINR(text) THEN "INR"
            ELSE IF HasUSD(text) THEN "USD"
            ELSE IF HasEUR(text) THEN "EUR"
            ELSE "INR"
       /\ (Contains(<<"$">>, text) /\ Contains(<<"rupee">>, text))
            => step1_result.currency_hint = "INR"
       /\ step1_result.currency_hint = "USD" => ~HasINR(text)

\* step 1 returned INR for a text that holds '$' and the rupee sign
C7_Witness ==
    /\ "currency_hint" \in DOMAIN step1_result
    /\ Contains(<<"$">>, text) /\ Contains(<<"rupee">>, text)
    /\ step1_result.currency_hint = "INR"

-----------------------------------------------------------------------------
(* Normalization on token lists: POST /api/extract/step2 (extract_step2) *)

MaxTokens == 3
MaxTokenLen == 3
SampleTokens ==
    { <<"5","0","0">>,
      <<"5","O","O">>,
      <<"l","2","0","0">>,
      <<"5","%">>,
      <<"0">>,
      <<"2",".","5","0">>,
      <<"1",",","2","0","0">>,
      <<"x">> }
Step2Alphabet == {"5", "0", "l", "I", "O", "o", "%", ",", ".", " ", "x"}

\* lists of sample tokens, and every single token over the alphabet
TokenLists ==
    StringsUpTo(SampleTokens, MaxTokens)
    \cup {<<t>> : t \in StringsUpTo(Step2Alphabet, MaxTokenLen)}

InitStep2 ==
    /\ pc = "step2_request"
    /\ raw_tokens \in TokenLists
    /\ text = NoneText
    /\ image_data = NoImage
    /\ s1_text = NoneText
    /\ cls_text = NoneText
    /\ cls_amounts = <<>>
    /\ step1_result = NoResult
    /\ step2_result = NoResult
    /\ step3_result = NoResult
    /\ final_result = NoResult
    /\ outcome = "running"
    /\ llm = NoLLM
    /\ ocr_calls = 0
    /\ llm_calls = 0
    /\ ocr_raised = FALSE

\* extract_step2: the response is step2_normalization's result
ExtractStep2 ==
    /\ pc = "step2_request"
    /\ step2_result' = step2_normalization(raw_tokens)
    /\ Return(step2_result')
    /\ UNCHANGED <<text, image_data, s1_text, raw_tokens, cls_text, cls_amounts,
                   step1_result, step3_result, llm, ocr_calls, llm_calls, ocr_raised>>

NextStep2 == ExtractStep2
SpecStep2 == InitStep2 /\ [][NextStep2]_vars

\* the token with l and I replaced by 1, O and o by 0, and the commas removed
Substituted(token) ==
    SelectSeq([i \in 1..Len(token) |->
                  CASE token[i] \in {"l", "I"} -> "1"
                    [] token[i] \in {"O", "o"} -> "0"
                    [] OTHER -> token[i]],
              LAMBDA c : c # ",")

\* the token holds no '%' and parses, after the substitutions, to a number > 0
Eligible(token) ==
    /\ \A i \in 1..Len(token) : token[i] # "%"
    /\ ParseFloat(Substituted(token)) # ValueError
    /\ ParseFloat(Substituted(token)).m > 0

\* C6: step2_normalization returns, in input order, exactly the values of the
\* tokens without '%' that parse to a number > 0 after the substitutions;
\* every value is > 0, whole numbers are ints, and '500' -> 500, '5OO' -> 500,
\* 'l200' -> 1200, '5%' -> dropped.
C6_NormalizationExact ==
    pc = "done" =>
        LET out == step2_result.normalized_amounts
            idx == {i \in DOMAIN raw_tokens : Eligible(raw_tokens[i])}
        IN  /\ Len(out) = Cardinality(idx)
            /\ \A i \in idx :
                  LET v == ParseFloat(Substituted(raw_tokens[i]))
                      o == out[Cardinality({j \in idx : j <= i})]
                  IN  o.m = v.m /\ o.e = v.e
            /\ \A k \in DOMAIN out :
                  /\ out[k].m > 0
                  /\ out[k].kind = IF out[k].e = 0 THEN "int" ELSE "float"
            /\ raw_tokens = << <<"5","0","0">> >> => out = <<PyInt(500)>>
            /\ raw_tokens = << <<"5","O","O">> >> => out = <<PyInt(500)>>
            /\ raw_tokens = << <<"l","2","0","0">> >> => out = <<PyInt(1200)>>
            /\ raw_tokens = << <<"5","%">> >> => out = <<>>

\* a percentage, an unparsable token and a decimal number were normalized in
\* one list
C6_Witness ==
    /\ pc = "done"
    /\ raw_tokens = << <<"5","%">>, <<"x">>, <<"2",".","5","0">> >>
    /\ step2_result.normalized_amounts = <<PyFloat(25, 1)>>

-----------------------------------------------------------------------------
(* The fallback classifier on texts put together from keywords, amounts and
   line breaks *)

MaxWords == 3
FallbackPieces ==
    { <<"T","o","t","a","l"," ">>,
      <<"p","a","i","d"," ">>,
      <<"\n">>,
      <<"2","9">>,
      <<"4","0">>,
      <<" ","x"," ">>,
      <<"D","u","e">> }

AmountLists ==
    { <<PyInt(29)>>, <<PyInt(40), PyInt(29)>>, <<PyFloat(295, 1), PyInt(4029)>> }

ScenarioAmounts == <<PyInt(500), PyInt(2940), PyInt(2000), PyInt(940)>>

\* the texts of at most MaxWords pieces with the short amount lists, and the
\* two bill texts with their amounts
FallbackInputs ==
    ({Flatten(ps) : ps \in StringsUpTo(FallbackPieces, MaxWords)} \X AmountLists)
    \cup ({TotalText, ScenarioText} \X {<<PyInt(2940)>>, ScenarioAmounts})

InitFallback ==
    /\ pc = "fallback"
    /\ \E in \in FallbackInputs : cls_text = in[1] /\ cls_amounts = in[2]
    /\ text = NoneText
    /\ image_data = NoImage
    /\ s1_text = NoneText
    /\ raw_tokens = <<>>
    /\ step1_result = NoResult
    /\ step2_result = NoResult
    /\ step3_result = NoResult
    /\ final_result = NoResult
    /\ outcome = "running"
    /\ llm = NoLLM
    /\ ocr_calls = 0
    /\ llm_calls = 0
    /\ ocr_raised = FALSE

\* _fallback_classification(text, amounts)
Fallback ==
    /\ pc = "fallback"
    /\ step3_result' = fallback_classification(cls_text, cls_amounts)
    /\ pc' = "done"
    /\ UNCHANGED <<text, image_data, s1_text, raw_tokens, cls_text, cls_amounts,
                   step1_result, step2_result, final_result, outcome, llm,
                   ocr_calls, llm_calls, ocr_raised>>

NextFallback == Fallback
SpecFallback == InitFallback /\ [][NextFallback]_vars

CategoryPriority ==
    <<"total_bill", "paid", "due", "discount", "consultation_fee",
      "medicine_cost", "test_cost">>

\* the positions of the lower-cased text at which a occurs
Positions(a, t) == {i \in 1..Len(t) : OccursAt(a, Lower(t), i)}

\* the keyword occurs in t and the digit string after its end, or the digit
\* string occurs and the keyword after its end
FollowedEventually(keyword, digits, t) ==
    \E i \in Positions(keyword, t) :
        \E j \in Positions(digits, t) :
            i + Len(keyword) <= j \/ j + Len(digits) <= i

\* the same within one line of t
FollowedOnLine(keyword, digits, t) ==
    LET lines == Split(t)
    IN  \E n \in DOMAIN lines : FollowedEventually(keyword, digits, lines[n])

\* the first category in the priority order with a keyword near the amount,
\* on its line (onLine) or anywhere in the text; "other" when there is none
Label(onLine, t, amount) ==
    LET digits == NatToStr(amount.m \div Pow10(amount.e))
        hits == {c \in DOMAIN CategoryPriority :
                    \E k \in DOMAIN keywords[c].terms :
                        IF onLine
                        THEN FollowedOnLine(keywords[c].terms[k], digits, t)
                        ELSE FollowedEventually(keywords[c].terms[k], digits, t)}
    IN  IF hits = {} THEN "other"
        ELSE CategoryPriority[CHOOSE c \in hits : \A d \in hits : c <= d]

\* one entry per amount, in input order, each with its label
Labelled(onLine) ==
    pc = "done" =>
        /\ Len(step3_result.amounts) = Len(cls_amounts)
        /\ \A i \in DOMAIN cls_amounts :
              /\ step3_result.amounts[i].value = cls_amounts[i]
              /\ step3_result.amounts[i].type = Label(onLine, cls_text, cls_amounts[i])
        /\ \A c \in DOMAIN CategoryPriority : keywords[c].category = CategoryPriority[c]

\* C9 as stated: one entry per amount, in input order, labelled with the first
\* category in the priority order that has a keyword anywhere in the text
\* followed eventually by the amount's digit string, or the digit string
\* followed eventually by the keyword; 'other' exactly when there is none.
C9_FallbackLabels == Labelled(FALSE)

\* C9 as amended: the same, the keyword and the digit string being on one
\* line of the text; 'Total Amount Rs 2940' with 2940 is labelled total_bill.
C9_FallbackLabelsOnLine ==
    /\ Labelled(TRUE)
    /\ (pc = "done" /\ cls_text = TotalText /\ cls_amounts = <<PyInt(2940)>>)
       => step3_result.amounts = <<Item("total_bill", PyInt(2940))>>

\* the classifier labelled 'other' an amount whose only keyword is on the
\* other line of the text
C9_Witness ==
    /\ pc = "done"
    /\ Len(Split(cls_text)) = 2
    /\ cls_amounts = <<PyInt(29)>>
    /\ Contains(<<"2","9">>, cls_text)
    /\ Contains(<<"p","a","i","d">>, cls_text)
    /\ step3_result.amounts = <<Item("other", PyInt(29))>>

====
